---------------------------- MODULE Spec2Model ----------------------------
(***************************************************************************)
(* The task manager hook (src/hooks/use-task-manager.js) with its          *)
(* validator (src/utils/task-utils.js) and its persistence adapter         *)
(* (src/utils/local-storage.js), as a state machine.                       *)
(*                                                                         *)
(* A JavaScript object is a function from the names of its own properties  *)
(* to their values; a missing property is a name outside the DOMAIN.  A    *)
(* string is a sequence of one-character strings, so that trim() and       *)
(* .length are computed.  An id is a number: uuidv4() hands out 1, 2, ...  *)
(* and ids stored by an earlier session are numbers above MaxIds.  A       *)
(* createdAt is the instant in clock ticks that toISOString() renders.     *)
(*                                                                         *)
(* React state: a setter called with a value or an updater function only   *)
(* appends to the hook's update queue; the queue is applied, in order, by  *)
(* the next render.  An updater may also be run eagerly inside the setter  *)
(* when nothing is pending, but an exception it throws there is           *)
(* suppressed by React and thrown again by the render, never into the      *)
(* caller of the setter.                                                   *)
(***************************************************************************)
EXTENDS Integers, Sequences, FiniteSets, TLC

VARIABLES
    tasks,          \* useState([]): the committed collection
    loading,        \* useState(true)
    error,          \* useState(null)
    queue,          \* pending setTasks updates, in call order
    pendLoading,    \* a setLoading(false) is pending
    pendError,      \* the pending setError value, or NoPending
    effectPending,  \* the auto-save effect is scheduled for the last commit
    phase,          \* "mounting", "mounted" or "crashed"
    store,          \* the slot "tasks" of localStorage
    storeWritable,  \* FALSE: localStorage.setItem throws
    nextUuid,       \* the next value uuidv4() returns
    clock,          \* the instant new Date() reads
    result,         \* what the last call of an operation returned
    saves,          \* calls of saveTasks since the last call of an operation
    calls,          \* number of operations called so far
    callerIds,      \* some call so far passed an id field in its draft or patch
    sorting,        \* useState(defaultSortBy), useState(defaultSortOrder), and
                    \* the pending setSortBy and setSortOrder values
    isFormOpen,     \* TaskManager component: useState(false)
    taskToEdit,     \* TaskManager component: useState(null)
    records,        \* the array a utility function is called with
    returned        \* what the last call of a utility function returned

vars == <<tasks, loading, error, queue, pendLoading, pendError, effectPending,
          phase, store, storeWritable, nextUuid, clock, result, saves, calls,
          callerIds, sorting, isFormOpen, taskToEdit, records, returned>>

\* the state of the TaskManager component that the hook does not have
componentVars == <<isFormOpen, taskToEdit>>

----------------------------------------------------------------------------
(* Bounds of the model *)

MaxCalls == 2       \* operations called in one run
MaxPending == 2     \* updates queued between two renders
MaxIds == 2         \* ids uuidv4() hands out in one run
MaxClock == 1       \* instants the clock takes after 0
MaxRecords == 4     \* records in an array given to a utility function

----------------------------------------------------------------------------
(* JavaScript objects and strings *)

EmptyObj == [k \in {} |-> TRUE]

NullObj == [isNull |-> TRUE]

IsNullish(o) == "isNull" \in DOMAIN o

Has(o, k) == k \in DOMAIN o

\* {...a, ...b}: own properties of a, overridden by own properties of b
Spread(a, b) ==
    [k \in DOMAIN a \cup DOMAIN b |-> IF k \in DOMAIN b THEN b[k] ELSE a[k]]

\* the own enumerable properties a spread copies: none of null, undefined or
\* of a function
OwnProps(arg) ==
    IF arg.kind = "object" /\ ~IsNullish(arg.props) THEN arg.props ELSE EmptyObj

Obj(props) == [kind |-> "object", props |-> props]

Rep(c, n) == [i \in 1..n |-> c]

IsSpace(c) == c = " "

RECURSIVE TrimStart(_)
TrimStart(s) ==
    IF s # <<>> /\ IsSpace(Head(s)) THEN TrimStart(Tail(s)) ELSE s

RECURSIVE TrimEnd(_)
TrimEnd(s) ==
    IF s # <<>> /\ IsSpace(s[Len(s)]) THEN TrimEnd(SubSeq(s, 1, Len(s) - 1)) ELSE s

\* a title.trim() that trims nothing
TrimNothing(s) == s

Trim(s) == TrimEnd(TrimStart(s))

----------------------------------------------------------------------------
(* src/utils/task-utils.js: validateTask *)

MaxTitleLength == 100

MaxDescriptionLength == 500

Priorities == {"High", "Medium", "Low"}

\* an unparseable createdAt: new Date(createdAt) is an Invalid Date
InvalidDate == -1

MsgTaskRequired == "Task object is required"
MsgTitleRequired == "Title is required and must be a non-empty string"
MsgTitleTooLong == "Title must be 100 characters or less"
MsgDescriptionType == "Description must be a string"
MsgDescriptionTooLong == "Description must be 500 characters or less"
MsgPriority == "Priority must be High, Medium, or Low"
MsgCompleted == "Completed must be a boolean value"
MsgCreatedAt == "CreatedAt must be a valid date"
MsgNotFound == "Task not found"

\* typeof task[k]: in this model title and description hold strings and
\* completed holds a boolean whenever they are present
TypeOf(task, k) ==
    IF ~Has(task, k) THEN "undefined"
    ELSE IF k \in {"title", "description", "priority"} THEN "string"
    ELSE IF k = "completed" THEN "boolean"
    ELSE "number"

\* a property read as a condition: missing and "" are falsy
Truthy(task, k) ==
    /\ Has(task, k)
    /\ (TypeOf(task, k) = "string" /\ k # "priority") => task[k] # <<>>
    /\ k = "priority" => task[k] # ""
    /\ k = "completed" => task[k]

ErrIf(cond, msg) == IF cond THEN <<msg>> ELSE <<>>

\* a check that takes any non-empty priority
priorityRejectedIfEmpty(task) == ~Truthy(task, "priority")

\* !task.priority || !["High", "Medium", "Low"].includes(task.priority)
priorityRejected(task) ==
    ~Truthy(task, "priority") \/ task.priority \notin Priorities

validateTask(task) ==
    IF IsNullish(task)
    THEN [isValid |-> FALSE, errors |-> <<MsgTaskRequired>>]
    ELSE LET errors ==
                 ErrIf(\/ ~Truthy(task, "title")
                       \/ TypeOf(task, "title") # "string"
                       \/ Len(Trim(task.title)) = 0,
                       MsgTitleRequired)
              \o ErrIf(Truthy(task, "title") /\ Len(task.title) > MaxTitleLength,
                       MsgTitleTooLong)
              \o ErrIf(Truthy(task, "description")
                         /\ TypeOf(task, "description") # "string",
                       MsgDescriptionType)
              \o ErrIf(Truthy(task, "description")
                         /\ Len(task.description) > MaxDescriptionLength,
                       MsgDescriptionTooLong)
              \o ErrIf(priorityRejected(task), MsgPriority)
              \o ErrIf(TypeOf(task, "completed") # "boolean", MsgCompleted)
              \o ErrIf(Has(task, "createdAt") /\ task.createdAt = InvalidDate,
                       MsgCreatedAt)
         IN  [isValid |-> Len(errors) = 0, errors |-> errors]

\* errors.join(", "): the messages in order; the separator is left out
JoinErrors(errors) == errors

----------------------------------------------------------------------------
(* src/utils/task-utils.js: sortTasks *)

PRIORITY_ORDER == [High |-> 3, Medium |-> 2, Low |-> 1]

SortOptions == {"created", "priority", "progress", "title"}

SortOrders == {"asc", "desc"}

\* toLowerCase() on the letters the titles of the model are written with
LowerOf(c) ==
    CASE c = "A" -> "a"
      [] c = "B" -> "b"
      [] OTHER -> c

ToLowerCase(str) == [i \in 1..Len(str) |-> LowerOf(str[i])]

\* the place of a character in the collation: the space, then a, then b
CharRank(c) ==
    CASE c = " " -> 0
      [] c = "a" -> 1
      [] c = "b" -> 2
      [] OTHER -> 3

\* x.localeCompare(y) on strings of those characters: -1, 0 or 1
RECURSIVE LocaleCompare(_, _)
LocaleCompare(x, y) ==
    IF x = <<>> /\ y = <<>> THEN 0
    ELSE IF x = <<>> THEN -1
    ELSE IF y = <<>> THEN 1
    ELSE IF CharRank(Head(x)) < CharRank(Head(y)) THEN -1
    ELSE IF CharRank(Head(x)) > CharRank(Head(y)) THEN 1
    ELSE LocaleCompare(Tail(x), Tail(y))

\* the comparison of the switch, for records that have the field compared
Comparison(a, b, sortBy) ==
    CASE sortBy = "created" -> a.createdAt - b.createdAt
      [] sortBy = "priority" -> PRIORITY_ORDER[a.priority] - PRIORITY_ORDER[b.priority]
      [] sortBy = "progress" ->
            (IF Truthy(a, "completed") THEN 1 ELSE 0)
                - (IF Truthy(b, "completed") THEN 1 ELSE 0)
      [] sortBy = "title" -> LocaleCompare(ToLowerCase(a.title), ToLowerCase(b.title))
      [] OTHER -> 0

\* a comparator that never negates
ComparatorAscending(a, b, sortBy, sortOrder) == Comparison(a, b, sortBy)

\* sortOrder === "asc" ? comparison : -comparison
Comparator(a, b, sortBy, sortOrder) ==
    IF sortOrder = "asc" THEN Comparison(a, b, sortBy)
    ELSE 0 - Comparison(a, b, sortBy)

\* an insertion that puts the record before the records it compares equal to
RECURSIVE InsertBeforeEquals(_, _, _, _)
InsertBeforeEquals(sorted, x, sortBy, sortOrder) ==
    IF sorted = <<>> THEN <<x>>
    ELSE LET last == sorted[Len(sorted)] IN
         IF Comparator(x, last, sortBy, sortOrder) <= 0
         THEN InsertBeforeEquals(SubSeq(sorted, 1, Len(sorted) - 1), x,
                                 sortBy, sortOrder) \o <<last>>
         ELSE Append(sorted, x)

\* Array.prototype.sort is stable: a record goes behind the sorted records
\* it does not compare less than
RECURSIVE InsertSorted(_, _, _, _)
InsertSorted(sorted, x, sortBy, sortOrder) ==
    IF sorted = <<>> THEN <<x>>
    ELSE LET last == sorted[Len(sorted)] IN
         IF Comparator(x, last, sortBy, sortOrder) < 0
         THEN InsertSorted(SubSeq(sorted, 1, Len(sorted) - 1), x,
                           sortBy, sortOrder) \o <<last>>
         ELSE Append(sorted, x)

\* [...tasks].sort(comparator), for an array `tasks`
RECURSIVE sortTasks(_, _, _)
sortTasks(ts, sortBy, sortOrder) ==
    IF ts = <<>> THEN <<>>
    ELSE InsertSorted(sortTasks(SubSeq(ts, 1, Len(ts) - 1), sortBy, sortOrder),
                      ts[Len(ts)], sortBy, sortOrder)

----------------------------------------------------------------------------
(* src/utils/task-utils.js: filterTasks *)

\* an argument that is an array, and one that is none (null)
ArrayOf(ts) == [isArray |-> TRUE, items |-> ts]

NotAnArray == [isArray |-> FALSE, items |-> <<>>]

\* a search term that is a string, and the one left out (undefined)
TermOf(text) == [given |-> TRUE, text |-> text]

NoTerm == [given |-> FALSE, text |-> <<>>]

\* str.includes(sub)
Includes(str, sub) ==
    \E i \in 0..(Len(str) - Len(sub)) : SubSeq(str, i + 1, i + Len(sub)) = sub

\* a filter predicate that looks at the title alone
titleMatches(task, term) ==
    Includes(ToLowerCase(task.title), term)

\* the filter predicate: the title or a truthy description includes the term
taskMatches(task, term) ==
    \/ Includes(ToLowerCase(task.title), term)
    \/ /\ Truthy(task, "description")
       /\ Includes(ToLowerCase(task.description), term)

\* filterTasks(tasks, searchTerm)
filterTasks(input, searchTerm) ==
    IF ~searchTerm.given \/ searchTerm.text = <<>> \/ ~input.isArray
    THEN input
    ELSE LET term == Trim(ToLowerCase(searchTerm.text)) IN
         ArrayOf(SelectSeq(input.items, LAMBDA task : taskMatches(task, term)))

----------------------------------------------------------------------------
(* src/utils/task-utils.js: getTaskStats *)

\* a reducer that counts every record as pending
CountAllPending(acc, task) ==
    [acc EXCEPT !.total = @ + 1, !.pending = @ + 1]

\* the reducer: one record counted
CountTask(acc, task) ==
    LET counted ==
            IF Truthy(task, "completed")
            THEN [acc EXCEPT !.total = @ + 1, !.completed = @ + 1]
            ELSE [acc EXCEPT !.total = @ + 1, !.pending = @ + 1]
    IN  IF ~Has(task, "priority") THEN counted
        ELSE CASE task.priority = "High" -> [counted EXCEPT !.highPriority = @ + 1]
               [] task.priority = "Medium" -> [counted EXCEPT !.mediumPriority = @ + 1]
               [] task.priority = "Low" -> [counted EXCEPT !.lowPriority = @ + 1]
               [] OTHER -> counted

\* tasks.reduce(reducer, accumulator)
RECURSIVE Reduce(_, _)
Reduce(ts, acc) ==
    IF ts = <<>> THEN acc ELSE Reduce(Tail(ts), CountTask(acc, Head(ts)))

\* getTaskStats(tasks) for an array; completionRate is the number num / den
getTaskStats(ts) ==
    LET stats == Reduce(ts, [total |-> 0, completed |-> 0, pending |-> 0,
                             highPriority |-> 0, mediumPriority |-> 0,
                             lowPriority |-> 0])
        rate == IF stats.total > 0
                THEN [num |-> stats.completed * 100, den |-> stats.total]
                ELSE [num |-> 0, den |-> 1]
    IN  [total |-> stats.total, completed |-> stats.completed,
         pending |-> stats.pending, highPriority |-> stats.highPriority,
         mediumPriority |-> stats.mediumPriority,
         lowPriority |-> stats.lowPriority, completionRate |-> rate]

----------------------------------------------------------------------------
(* src/utils/local-storage.js: the slot, saveTasks, loadTasks *)

\* The value of the slot: absent (getItem returns null), or a text.  A text
\* is empty, the JSON of an array (items: the JSON objects in it), the JSON
\* of a value that is no array, or no JSON at all.  A slot may also be
\* unreadable: getItem throws.
SlotAbsent == [kind |-> "absent", items |-> <<>>]
SlotEmptyText == [kind |-> "empty", items |-> <<>>]
SlotGarbage == [kind |-> "garbage", items |-> <<>>]
SlotNonArray == [kind |-> "nonarray", items |-> <<>>]
SlotUnreadable == [kind |-> "throws", items |-> <<>>]

\* The JSON text of one property value: a boolean is written as the literal
\* true or false, every other value of a record (a title, a description, a
\* priority, an id, an ISO time) as a quoted string.
JSONValue(task, k) ==
    IF TypeOf(task, k) = "boolean"
    THEN [type |-> "literal", text |-> IF task[k] THEN "true" ELSE "false"]
    ELSE [type |-> "string", text |-> task[k]]

\* a reader that takes every literal for true
JSONParseValueAllTrue(token) ==
    IF token.type = "literal" THEN TRUE ELSE token.text

\* the value JSON.parse reads from the text of a property value
JSONParseValue(token) ==
    IF token.type = "literal" THEN token.text = "true" ELSE token.text

JSONObject(task) == [k \in DOMAIN task |-> JSONValue(task, k)]

JSONParseObject(text) == [k \in DOMAIN text |-> JSONParseValue(text[k])]

\* JSON.stringify of an array of records whose properties are strings,
\* booleans and numbers: every property of every record, in order
JSONStringify(ts) ==
    [kind |-> "array", items |-> [i \in 1..Len(ts) |-> JSONObject(ts[i])]]

\* JSON.parse of the text of an array
JSONParse(slot) == [i \in 1..Len(slot.items) |-> JSONParseObject(slot.items[i])]

\* a saveTasks that empties the slot when setItem throws
saveTasksSlotEmptied(ts, slot, writable) ==
    IF writable THEN JSONStringify(ts) ELSE SlotAbsent

\* saveTasks(tasks): the slot afterwards; setItem throwing is caught
saveTasksSlot(ts, slot, writable) ==
    IF writable THEN JSONStringify(ts) ELSE slot

saveTasksReturn(ts, writable) == writable

\* a loadTasks that gives up on every slot
loadTasksNothing(slot) == <<>>

loadTasks(slot) ==
    IF slot.kind = "throws" THEN <<>>              \* getItem throws, caught
    ELSE IF slot.kind \in {"absent", "empty"} THEN <<>>   \* !serializedTasks
    ELSE IF slot.kind = "garbage" THEN <<>>        \* JSON.parse throws, caught
    ELSE IF slot.kind # "array" THEN <<>>          \* !Array.isArray(tasks)
    ELSE JSONParse(slot)

----------------------------------------------------------------------------
(* src/utils/local-storage.js: restoreTasks *)

\* new Promise(...): not settled, resolve and reject not yet called
NewPromise ==
    [state |-> "pending", value |-> <<>>, reason |-> "", settleCalls |-> 0]

\* resolve(value): takes effect on a pending promise only
resolve(promise, value) ==
    IF promise.state = "pending"
    THEN [state |-> "fulfilled", value |-> value, reason |-> "",
          settleCalls |-> promise.settleCalls + 1]
    ELSE [promise EXCEPT !.settleCalls = @ + 1]

\* reject(new Error(reason)): takes effect on a pending promise only
reject(promise, reason) ==
    IF promise.state = "pending"
    THEN [state |-> "rejected", value |-> <<>>, reason |-> reason,
          settleCalls |-> promise.settleCalls + 1]
    ELSE [promise EXCEPT !.settleCalls = @ + 1]

\* a file: whether it is a Blob at all, whether reading it succeeds, its text
FileOf(blob, readable, text) ==
    [blob |-> blob, readable |-> readable, text |-> text]

\* an onload handler that goes on after rejecting a value that is no array
readerOnLoadNoReturn(promise, file) ==
    IF file.text.kind \in {"garbage", "empty"}
    THEN reject(promise, "Failed to parse backup file")
    ELSE IF file.text.kind # "array"
    THEN resolve(reject(promise, "Invalid backup file format"), <<>>)
    ELSE resolve(promise, JSONParse(file.text))

\* reader.onload: parse the text read, reject what is not an array
readerOnLoad(promise, file) ==
    IF file.text.kind \in {"garbage", "empty"}      \* JSON.parse throws, caught
    THEN reject(promise, "Failed to parse backup file")
    ELSE IF file.text.kind # "array"               \* !Array.isArray(tasks)
    THEN reject(promise, "Invalid backup file format")
    ELSE resolve(promise, JSONParse(file.text))

----------------------------------------------------------------------------
(* src/hooks/use-task-manager.js: the updater functions given to setTasks *)

autoSave == TRUE                \* options = {}: autoSave = true

NoError == "null"               \* error === null
NoPending == "none"             \* no setError call is pending

\* One queued setTasks call: a value ("set"), or one of the three updaters
\* with the values its closure holds.
SetEntry(ts) ==
    [op |-> "set", value |-> ts, task |-> EmptyObj, id |-> 0, updates |-> Obj(EmptyObj)]

AddEntry(newTask) ==
    [op |-> "add", value |-> <<>>, task |-> newTask, id |-> 0, updates |-> Obj(EmptyObj)]

UpdateEntry(taskId, updates) ==
    [op |-> "update", value |-> <<>>, task |-> EmptyObj, id |-> taskId, updates |-> updates]

DeleteEntry(taskId) ==
    [op |-> "delete", value |-> <<>>, task |-> EmptyObj, id |-> taskId,
     updates |-> Obj(EmptyObj)]

\* prevTasks.findIndex((task) => task.id === taskId): 1-based, 0 for -1
FindIndex(prevTasks, taskId) ==
    LET found == {i \in 1..Len(prevTasks) :
                     Has(prevTasks[i], "id") /\ prevTasks[i].id = taskId}
    IN  IF found = {} THEN 0 ELSE CHOOSE i \in found : \A j \in found : i <= j

\* a filter that drops the last record, whatever its id
FilterOutLast(prevTasks, taskId) ==
    IF prevTasks = <<>> THEN <<>> ELSE SubSeq(prevTasks, 1, Len(prevTasks) - 1)

\* prevTasks.filter(keep)
RECURSIVE FilterOutId(_, _)
FilterOutId(prevTasks, taskId) ==
    IF prevTasks = <<>> THEN <<>>
    ELSE LET t == Head(prevTasks)
             rest == FilterOutId(Tail(prevTasks), taskId)
         IN  IF Has(t, "id") /\ t.id = taskId THEN rest ELSE <<t>> \o rest

\* What one run of an updater yields: it threw (message), or it returned
\* state; updatedTask is what it assigned to the variable of updateTask.
Returned(state, hasTask, task) ==
    [threw |-> FALSE, message |-> <<>>, state |-> state,
     hasTask |-> hasTask, updatedTask |-> task]

Threw(prev, message, hasTask, task) ==
    [threw |-> TRUE, message |-> message, state |-> prev,
     hasTask |-> hasTask, updatedTask |-> task]

\* an updater that puts the new record first
addUpdaterInFront(prevTasks, newTask) ==
    Returned(<<newTask>> \o prevTasks, FALSE, EmptyObj)

\* (prevTasks) => [...prevTasks, newTask]
addUpdater(prevTasks, newTask) ==
    Returned(Append(prevTasks, newTask), FALSE, EmptyObj)

\* a merge in which the existing record overrides the patch
mergeUpdatesUnder(task, updates) == Spread(OwnProps(updates), task)

\* { ...prevTasks[taskIndex], ...updates }
mergeUpdates(task, updates) == Spread(task, OwnProps(updates))

\* an updater that merges the patch over the first record of the collection
updateUpdaterFromFirst(prevTasks, taskId, updates) ==
    LET taskIndex == FindIndex(prevTasks, taskId) IN
    IF taskIndex = 0
    THEN Threw(prevTasks, <<MsgNotFound>>, FALSE, EmptyObj)
    ELSE LET updatedTask == mergeUpdates(prevTasks[1], updates)
             validation == validateTask(updatedTask)
         IN  IF ~validation.isValid
             THEN Threw(prevTasks, JoinErrors(validation.errors), TRUE, updatedTask)
             ELSE Returned([prevTasks EXCEPT ![taskIndex] = updatedTask],
                           TRUE, updatedTask)

\* the updater of updateTask
updateUpdater(prevTasks, taskId, updates) ==
    LET taskIndex == FindIndex(prevTasks, taskId) IN
    IF taskIndex = 0
    THEN Threw(prevTasks, <<MsgNotFound>>, FALSE, EmptyObj)
    ELSE LET updatedTask == mergeUpdates(prevTasks[taskIndex], updates)
             validation == validateTask(updatedTask)
         IN  IF ~validation.isValid
             THEN Threw(prevTasks, JoinErrors(validation.errors), TRUE, updatedTask)
             ELSE Returned([prevTasks EXCEPT ![taskIndex] = updatedTask],
                           TRUE, updatedTask)

\* the updater of deleteTask
deleteUpdater(prevTasks, taskId) ==
    IF FindIndex(prevTasks, taskId) = 0      \* !prevTasks.some(...)
    THEN Threw(prevTasks, <<MsgNotFound>>, FALSE, EmptyObj)
    ELSE Returned(FilterOutId(prevTasks, taskId), FALSE, EmptyObj)

ApplyEntry(prevTasks, e) ==
    CASE e.op = "set" -> Returned(e.value, FALSE, EmptyObj)
      [] e.op = "add" -> addUpdater(prevTasks, e.task)
      [] e.op = "update" -> updateUpdater(prevTasks, e.id, e.updates)
      [] e.op = "delete" -> deleteUpdater(prevTasks, e.id)

\* a render in which every update is applied to the committed collection,
\* so that only the last one shows
RECURSIVE ProcessQueueOnCommitted(_, _)
ProcessQueueOnCommitted(state, q) ==
    IF q = <<>> THEN [threw |-> FALSE, state |-> state]
    ELSE LET r == ApplyEntry(state, q[Len(q)])
         IN  [threw |-> r.threw, state |-> r.state]

\* The render applies the queued updates in order; an updater that throws
\* makes the render throw.
RECURSIVE ProcessQueue(_, _)
ProcessQueue(state, q) ==
    IF q = <<>> THEN [threw |-> FALSE, state |-> state]
    ELSE LET r == ApplyEntry(state, Head(q))
         IN  IF r.threw THEN [threw |-> TRUE, state |-> state]
             ELSE ProcessQueue(r.state, Tail(q))

----------------------------------------------------------------------------
(* The inputs of the model *)

\* ids of records an earlier session stored; uuidv4() never repeats them
StoredId1 == 11
StoredId2 == 12

MissingId == 0                  \* an id no record has

TitleMilk == <<"M", "i", "l", "k">>

StoredTask1 ==
    [id |-> StoredId1, title |-> <<"S", "1">>, description |-> <<"d">>,
     priority |-> "Medium", completed |-> FALSE, createdAt |-> 0]

StoredTask2 ==
    [id |-> StoredId2, title |-> <<"S", "2">>, priority |-> "High",
     completed |-> TRUE, createdAt |-> 0]

\* a record another writer of the slot left: no title, no completed
ForeignTask == [id |-> StoredId1, title |-> <<>>, priority |-> "Urgent"]

\* the arrays an earlier session may have stored
CleanArrays == {<<StoredTask1>>, <<StoredTask1, StoredTask2>>}

AnyArrays == CleanArrays \cup {<<ForeignTask>>}

\* what the slot may hold when the hook mounts
CleanSlots ==
    {SlotAbsent, SlotGarbage, SlotNonArray, SlotUnreadable}
        \cup {JSONStringify(ts) : ts \in CleanArrays}

AnySlots == CleanSlots \cup {JSONStringify(ts) : ts \in AnyArrays}

\* the drafts addTask is called with
Drafts ==
    {Obj([title |-> TitleMilk, priority |-> "High"]),
     Obj([title |-> <<"a">>, description |-> <<"d">>, priority |-> "Low",
          completed |-> TRUE]),
     Obj([title |-> <<>>, priority |-> "High"]),
     Obj([title |-> <<" ", " ">>, priority |-> "Medium"]),
     Obj([title |-> <<"a">>]),
     Obj([title |-> Rep("x", MaxTitleLength + 1), priority |-> "Low"]),
     Obj([id |-> StoredId1, title |-> <<"a">>, priority |-> "Medium"]),
     Obj(NullObj)}

\* the patches updateTask is called with
Patches ==
    {Obj([title |-> <<"b">>]),
     Obj([completed |-> TRUE]),
     Obj([title |-> <<"c">>, priority |-> "Low"]),
     Obj([priority |-> "Urgent"]),
     Obj([title |-> <<" ">>]),
     Obj([id |-> StoredId2]),
     Obj([createdAt |-> 7])}

\* the ids updateTask, deleteTask and toggleTask are called with
CallIds == {MissingId, 1, StoredId1}

\* (prevTask) => ({ completed: !prevTask.completed }), passed as `updates`
ToggleUpdates == [kind |-> "function", props |-> EmptyObj]

Times == {t \in {clock, clock + 1} : t <= MaxClock}

\* nothing is queued on the hook, so React may run an updater inside setTasks
NothingPending ==
    /\ queue = <<>>
    /\ ~pendLoading
    /\ pendError = NoPending
    /\ sorting.pendSortBy = NoPending
    /\ sorting.pendSortOrder = NoPending

EagerChoices == IF NothingPending THEN BOOLEAN ELSE {FALSE}

----------------------------------------------------------------------------
(* The state after construction: the first render has returned *)

\* no utility function was called
NoReturn ==
    [fn |-> "none", ok |-> TRUE, value |-> <<>>, errors |-> <<>>,
     sortBy |-> "", sortOrder |-> ""]

\* defaultSortBy = "created", defaultSortOrder = "desc"; nothing pending
InitialSorting ==
    [sortBy |-> "created", sortOrder |-> "desc",
     pendSortBy |-> NoPending, pendSortOrder |-> NoPending]

\* the sort state a render commits
CommitSorting(s) ==
    [sortBy |-> IF s.pendSortBy # NoPending THEN s.pendSortBy ELSE s.sortBy,
     sortOrder |-> IF s.pendSortOrder # NoPending THEN s.pendSortOrder
                   ELSE s.sortOrder,
     pendSortBy |-> NoPending, pendSortOrder |-> NoPending]

NoResult ==
    [op |-> "none", success |-> TRUE, error |-> <<>>, hasTask |-> FALSE,
     task |-> EmptyObj]

InitWith(slots) ==
    /\ tasks = <<>>
    /\ loading = TRUE
    /\ error = NoError
    /\ queue = <<>>
    /\ pendLoading = FALSE
    /\ pendError = NoPending
    /\ effectPending = FALSE
    /\ phase = "mounting"
    /\ store \in slots
    /\ storeWritable \in BOOLEAN
    /\ store = SlotUnreadable => ~storeWritable    \* no access to the storage
    /\ nextUuid = 1
    /\ clock = 0
    /\ result = NoResult
    /\ saves = 0
    /\ calls = 0
    /\ callerIds = FALSE
    /\ sorting = InitialSorting
    /\ isFormOpen = FALSE
    /\ taskToEdit = NullObj
    /\ records = <<>>
    /\ returned = NoReturn

Init == InitWith(AnySlots)

----------------------------------------------------------------------------
(* The effects *)

\* a first flush whose auto-save effect does not look at loading
MountEffectsSaving ==
    /\ phase = "mounting"
    /\ queue' = Append(queue, SetEntry(loadTasks(store)))
    /\ pendError' = NoError
    /\ pendLoading' = TRUE
    /\ phase' = "mounted"
    /\ store' = saveTasksSlot(tasks, store, storeWritable)
    /\ saves' = saves + 1
    /\ UNCHANGED <<tasks, loading, error, effectPending, storeWritable, nextUuid,
                   clock, result, calls, callerIds, records, returned, sorting, componentVars>>

\* The two effects of the first render, run in order by one flush: the load
\* effect, then the auto-save effect, which still sees loading = true.
MountEffects ==
    /\ phase = "mounting"
    /\ queue' = Append(queue, SetEntry(loadTasks(store)))   \* setTasks(loadedTasks)
    /\ pendError' = NoError                                 \* setError(null)
    /\ pendLoading' = TRUE                                  \* setLoading(false)
    /\ phase' = "mounted"
    /\ IF autoSave /\ ~loading /\ Len(tasks) >= 0
       THEN /\ store' = saveTasksSlot(tasks, store, storeWritable)
            /\ saves' = saves + 1
       ELSE UNCHANGED <<store, saves>>
    /\ UNCHANGED <<tasks, loading, error, effectPending, storeWritable, nextUuid,
                   clock, result, calls, callerIds, records, returned, sorting, componentVars>>

\* A render: the queued updates are applied in order and committed.  The
\* auto-save effect is scheduled when one of its dependencies [tasks,
\* autoSave, loading] changed; every setTasks update yields a new array.
\* An updater that throws makes the render throw: the hook is unmounted.
Render ==
    /\ phase = "mounted"
    /\ ~effectPending
    /\ ~NothingPending
    /\ LET r == ProcessQueue(tasks, queue) IN
       IF r.threw
       THEN /\ phase' = "crashed"
            /\ UNCHANGED <<tasks, loading, error, effectPending>>
       ELSE /\ tasks' = r.state
            /\ loading' = IF pendLoading THEN FALSE ELSE loading
            /\ error' = IF pendError # NoPending THEN pendError ELSE error
            /\ effectPending' = (queue # <<>> \/ (pendLoading /\ loading))
            /\ phase' = phase
    /\ queue' = <<>>
    /\ pendLoading' = FALSE
    /\ pendError' = NoPending
    /\ sorting' = CommitSorting(sorting)
    /\ UNCHANGED <<store, storeWritable, nextUuid, clock, result, saves, calls,
                   callerIds, records, returned, componentVars>>

\* getSortedTasks(): the collection in the held order, computed on demand
getSortedTasks == sortTasks(tasks, sorting.sortBy, sorting.sortOrder)

\* an auto-save effect that saves the sorted view
AutoSaveEffectSorted ==
    /\ phase = "mounted"
    /\ effectPending
    /\ effectPending' = FALSE
    /\ IF autoSave /\ ~loading /\ Len(tasks) >= 0
       THEN /\ store' = saveTasksSlot(getSortedTasks, store, storeWritable)
            /\ saves' = saves + 1
            /\ pendError' = NoError
       ELSE UNCHANGED <<store, saves, pendError>>
    /\ UNCHANGED <<tasks, loading, error, queue, pendLoading, phase, storeWritable,
                   nextUuid, clock, result, calls, callerIds, records, returned,
                   sorting, componentVars>>

\* The auto-save effect
AutoSaveEffect ==
    /\ phase = "mounted"
    /\ effectPending
    /\ effectPending' = FALSE
    /\ IF autoSave /\ ~loading /\ Len(tasks) >= 0
       THEN /\ store' = saveTasksSlot(tasks, store, storeWritable)   \* saveTasks(tasks)
            /\ saves' = saves + 1
            /\ pendError' = NoError                                  \* setError(null)
       ELSE UNCHANGED <<store, saves, pendError>>
    /\ UNCHANGED <<tasks, loading, error, queue, pendLoading, phase, storeWritable,
                   nextUuid, clock, result, calls, callerIds, records, returned, sorting, componentVars>>

----------------------------------------------------------------------------
(* The operations the hook returns *)

\* an operation may be called once the hook is mounted and its effects ran
CanCall ==
    /\ phase = "mounted"
    /\ ~effectPending
    /\ calls < MaxCalls
    /\ Len(queue) < MaxPending

Success(op, hasTask, task) ==
    [op |-> op, success |-> TRUE, error |-> <<>>, hasTask |-> hasTask, task |-> task]

Failure(op, message) ==
    [op |-> op, success |-> FALSE, error |-> message, hasTask |-> FALSE,
     task |-> EmptyObj]

Called == calls' = calls + 1 /\ saves' = 0

\* a record whose id is the same at every call
newTaskOfFixedId(uuid, taskData, now) ==
    Spread(Spread([id |-> 1], OwnProps(taskData)),
           [completed |-> FALSE, createdAt |-> now])

\* { id: uuidv4(), ...taskData, completed: false, createdAt: new Date().toISOString() }
newTaskOf(uuid, taskData, now) ==
    Spread(Spread([id |-> uuid], OwnProps(taskData)),
           [completed |-> FALSE, createdAt |-> now])

addTask(taskData, now) ==
    /\ CanCall
    /\ nextUuid <= MaxIds
    /\ Called
    /\ nextUuid' = nextUuid + 1
    /\ clock' = now
    /\ callerIds' = (callerIds \/ Has(OwnProps(taskData), "id"))
    /\ LET newTask == newTaskOf(nextUuid, taskData, now)
           validation == validateTask(newTask)
       IN  IF ~validation.isValid
           THEN /\ result' = Failure("addTask", JoinErrors(validation.errors))
                /\ UNCHANGED <<queue, pendError>>
           ELSE /\ queue' = Append(queue, AddEntry(newTask))    \* setTasks(updater)
                /\ pendError' = NoError                         \* setError(null)
                /\ result' = Success("addTask", TRUE, newTask)
    /\ UNCHANGED <<tasks, loading, error, pendLoading, effectPending, phase, store,
                   storeWritable, records, returned, sorting, componentVars>>

\* updateTask(taskId, updates), also as toggleTask calls it.  setTasks queues
\* the updater and returns; what the updater throws never reaches the catch
\* of updateTask.  updatedTask is assigned only by an eager run.
updateTaskAs(op, taskId, updates, eager) ==
    /\ CanCall
    /\ Called
    /\ callerIds' = (callerIds \/ Has(OwnProps(updates), "id"))
    /\ LET run == updateUpdater(tasks, taskId, updates) IN
       result' = IF eager THEN Success(op, run.hasTask, run.updatedTask)
                 ELSE Success(op, FALSE, EmptyObj)
    /\ queue' = Append(queue, UpdateEntry(taskId, updates))     \* setTasks(updater)
    /\ pendError' = NoError                                     \* setError(null)
    /\ UNCHANGED <<tasks, loading, error, pendLoading, effectPending, phase, store,
                   storeWritable, nextUuid, clock, records, returned, sorting, componentVars>>

updateTask(taskId, updates, eager) ==
    updateTaskAs("updateTask", taskId, updates, eager)

\* updateTask(taskId, (prevTask) => ({ completed: !prevTask.completed }))
toggleTask(taskId, eager) ==
    updateTaskAs("toggleTask", taskId, ToggleUpdates, eager)

deleteTask(taskId) ==
    /\ CanCall
    /\ Called
    /\ queue' = Append(queue, DeleteEntry(taskId))              \* setTasks(updater)
    /\ pendError' = NoError                                     \* setError(null)
    /\ result' = Success("deleteTask", FALSE, EmptyObj)
    /\ UNCHANGED <<tasks, loading, error, pendLoading, effectPending, phase, store,
                   storeWritable, nextUuid, clock, callerIds, records, returned, sorting, componentVars>>

\* a clearAllTasks that keeps the first record
clearAllTasksButFirst ==
    /\ CanCall
    /\ Called
    /\ queue' = Append(queue, SetEntry(IF tasks = <<>> THEN <<>> ELSE <<tasks[1]>>))
    /\ pendError' = NoError
    /\ result' = Success("clearAllTasks", FALSE, EmptyObj)
    /\ UNCHANGED <<tasks, loading, error, pendLoading, effectPending, phase, store,
                   storeWritable, nextUuid, clock, callerIds, records, returned, sorting, componentVars>>

clearAllTasks ==
    /\ CanCall
    /\ Called
    /\ queue' = Append(queue, SetEntry(<<>>))                   \* setTasks([])
    /\ pendError' = NoError                                     \* setError(null)
    /\ result' = Success("clearAllTasks", FALSE, EmptyObj)
    /\ UNCHANGED <<tasks, loading, error, pendLoading, effectPending, phase, store,
                   storeWritable, nextUuid, clock, callerIds, records, returned, sorting, componentVars>>

\* updateSort(newSortBy, newSortOrder): two state updates are queued
updateSort(newSortBy, newSortOrder) ==
    /\ phase = "mounted"
    /\ ~effectPending
    /\ sorting' = [sorting EXCEPT !.pendSortBy = newSortBy,       \* setSortBy
                                  !.pendSortOrder = newSortOrder] \* setSortOrder
    /\ UNCHANGED <<tasks, loading, error, queue, pendLoading, pendError,
                   effectPending, phase, store, storeWritable, nextUuid, clock,
                   result, saves, calls, callerIds, records, returned,
                   componentVars>>

----------------------------------------------------------------------------
(* The specification *)

AddTaskStep == \E taskData \in Drafts, now \in Times : addTask(taskData, now)

UpdateTaskStep ==
    \E taskId \in CallIds, updates \in Patches, eager \in EagerChoices :
        updateTask(taskId, updates, eager)

ToggleTaskStep ==
    \E taskId \in CallIds, eager \in EagerChoices : toggleTask(taskId, eager)

DeleteTaskStep == \E taskId \in CallIds : deleteTask(taskId)

Next ==
    \/ MountEffects
    \/ Render
    \/ AutoSaveEffect
    \/ AddTaskStep
    \/ UpdateTaskStep
    \/ ToggleTaskStep
    \/ DeleteTaskStep
    \/ clearAllTasks

Spec == Init /\ [][Next]_vars

\* the sort key and order updateSort is called with: both other than the
\* defaults
SortChoices == {<<"title", "asc">>}

UpdateSortStep ==
    \E choice \in SortChoices : updateSort(choice[1], choice[2])

NextSorting ==
    \/ Next
    \/ UpdateSortStep

\* the hook with its sort state, on a slot that accepts writes and is empty
\* or holds two stored records
InitSorting ==
    /\ InitWith({SlotAbsent, JSONStringify(<<StoredTask1, StoredTask2>>)})
    /\ storeWritable = TRUE

SpecSorting == InitSorting /\ [][NextSorting]_vars

\* the slot holds what a session of the hook left, or nothing readable
InitClean == InitWith(CleanSlots)

SpecClean == InitClean /\ [][Next]_vars

----------------------------------------------------------------------------
(* The utility functions, called on their own *)

\* the records the utility functions are called with
MockTask1 ==
    [id |-> 21, title |-> <<"b">>, description |-> <<"d">>, priority |-> "High",
     completed |-> FALSE, createdAt |-> 1]

MockTask2 ==
    [id |-> 22, title |-> <<"A">>, description |-> <<"d">>, priority |-> "Medium",
     completed |-> TRUE, createdAt |-> 2]

MockTask3 ==
    [id |-> 23, title |-> <<"a", "b">>, priority |-> "Low", completed |-> FALSE,
     createdAt |-> 2]

MockTask4 ==
    [id |-> 24, title |-> <<"B">>, description |-> <<"d">>, priority |-> "High",
     completed |-> TRUE, createdAt |-> 4]

MockTasks == {MockTask1, MockTask2, MockTask3, MockTask4}

\* the arrays of at most MaxRecords of these records
MockArrays ==
    UNION {[1..n -> MockTasks] : n \in 0..MaxRecords}

\* what restoreTasks is called with: a backup of ts, texts that are no
\* array or no JSON, a file that cannot be read, a value that is no file
Files(ts) ==
    {FileOf(TRUE, TRUE, text) :
        text \in {JSONStringify(ts), SlotNonArray, SlotGarbage, SlotEmptyText}}
    \cup {FileOf(TRUE, FALSE, SlotEmptyText), FileOf(FALSE, FALSE, SlotEmptyText)}

\* what filterTasks is called with as its search term
SearchTerms ==
    {NoTerm} \cup {TermOf(text) :
                      text \in {<<>>, <<"a">>, <<"B">>, <<"d">>, <<"z">>,
                                <<"a", " ">>, <<" ">>}}

\* what validateTask is called with: no record, a valid one, a foreign one,
\* a title of the greatest length behind one space, a title one character
\* too long, and a record with a blank title, a description too long and a
\* priority that is none
Candidates ==
    {NullObj, MockTask1, ForeignTask,
     [MockTask1 EXCEPT !.title = <<" ">> \o Rep("x", MaxTitleLength)],
     [MockTask1 EXCEPT !.title = Rep("x", MaxTitleLength + 1)],
     [title |-> <<" ">>, description |-> Rep("d", MaxDescriptionLength + 1),
      priority |-> "Urgent", completed |-> FALSE]}

Returns(fn, ok, value, errors, sortBy, sortOrder) ==
    [fn |-> fn, ok |-> ok, value |-> value, errors |-> errors,
     sortBy |-> sortBy, sortOrder |-> sortOrder]

\* the hook is not mounted; an array is at hand
InitUtils ==
    /\ tasks = <<>>
    /\ loading = TRUE
    /\ error = NoError
    /\ queue = <<>>
    /\ pendLoading = FALSE
    /\ pendError = NoPending
    /\ effectPending = FALSE
    /\ phase = "mounting"
    /\ store \in {SlotAbsent, SlotEmptyText}
    /\ storeWritable \in BOOLEAN
    /\ nextUuid = 1
    /\ clock = 0
    /\ result = NoResult
    /\ saves = 0
    /\ calls = 0
    /\ callerIds = FALSE
    /\ sorting = InitialSorting
    /\ isFormOpen = FALSE
    /\ taskToEdit = NullObj
    /\ records \in MockArrays
    /\ returned = NoReturn

hookVars ==
    <<tasks, loading, error, queue, pendLoading, pendError, effectPending, phase,
      nextUuid, clock, result, saves, calls, callerIds, sorting, isFormOpen,
      taskToEdit>>

\* sortTasks(records, sortBy, sortOrder)
SortTasksStep ==
    \E sortBy \in SortOptions \cup {"none"}, sortOrder \in SortOrders :
        /\ returned' = Returns("sortTasks", TRUE, sortTasks(records, sortBy, sortOrder),
                               <<>>, sortBy, sortOrder)
        /\ UNCHANGED <<hookVars, store, storeWritable, records>>

\* validateTask(task)
ValidateTaskStep ==
    \E task \in Candidates :
        LET validation == validateTask(task) IN
        /\ returned' = Returns("validateTask", validation.isValid, <<task>>,
                               validation.errors, "", "")
        /\ UNCHANGED <<hookVars, store, storeWritable, records>>

\* saveTasks(records)
SaveTasksStep ==
    /\ store' = saveTasksSlot(records, store, storeWritable)
    /\ returned' = Returns("saveTasks", saveTasksReturn(records, storeWritable),
                           <<>>, <<>>, "", "")
    /\ UNCHANGED <<hookVars, storeWritable, records>>

\* loadTasks()
LoadTasksStep ==
    /\ returned' = Returns("loadTasks", TRUE, loadTasks(store), <<>>, "", "")
    /\ UNCHANGED <<hookVars, store, storeWritable, records>>

\* getTaskStats(records)
GetTaskStatsStep ==
    /\ returned' = Returns("getTaskStats", TRUE, <<getTaskStats(records)>>, <<>>, "", "")
    /\ UNCHANGED <<hookVars, store, storeWritable, records>>

\* filterTasks(records, searchTerm) and filterTasks(null, searchTerm)
FilterTasksStep ==
    \E searchTerm \in SearchTerms, input \in {ArrayOf(records), NotAnArray} :
        LET output == filterTasks(input, searchTerm) IN
        /\ returned' = [fn |-> "filterTasks", ok |-> TRUE, value |-> output.items,
                        errors |-> <<>>, sortBy |-> "", sortOrder |-> "",
                        searchTerm |-> searchTerm, input |-> input,
                        output |-> output]
        /\ UNCHANGED <<hookVars, store, storeWritable, records>>

\* restoreTasks(file): the promise is made and the read started; readAsText
\* throws for a value that is no Blob, and the promise is rejected at once
RestoreTasksStep ==
    \E file \in Files(records) :
        /\ returned' = [fn |-> "restoreTasks", ok |-> TRUE, value |-> <<>>,
                        errors |-> <<>>, sortBy |-> "", sortOrder |-> "",
                        file |-> file,
                        reader |-> IF file.blob THEN "loading" ELSE "empty",
                        promise |-> IF file.blob THEN NewPromise
                                    ELSE reject(NewPromise, "TypeError")]
        /\ UNCHANGED <<hookVars, store, storeWritable, records>>

\* the read has succeeded: reader.onload runs
ReaderLoadStep ==
    /\ returned.fn = "restoreTasks"
    /\ returned.reader = "loading"
    /\ returned.file.readable
    /\ returned' = [returned EXCEPT
                       !.reader = "done",
                       !.promise = readerOnLoad(@, returned.file)]
    /\ UNCHANGED <<hookVars, store, storeWritable, records>>

\* the read has failed: reader.onerror runs
ReaderErrorStep ==
    /\ returned.fn = "restoreTasks"
    /\ returned.reader = "loading"
    /\ ~returned.file.readable
    /\ returned' = [returned EXCEPT
                       !.reader = "done",
                       !.promise = reject(@, "Failed to read backup file")]
    /\ UNCHANGED <<hookVars, store, storeWritable, records>>

NextUtils ==
    \/ SortTasksStep
    \/ ValidateTaskStep
    \/ SaveTasksStep
    \/ LoadTasksStep

SpecUtils == InitUtils /\ [][NextUtils]_vars

\* the statistics, the filter and the restore of a backup, on an array at
\* hand and a slot that holds nothing
NextQuery ==
    \/ GetTaskStatsStep
    \/ FilterTasksStep
    \/ RestoreTasksStep
    \/ ReaderLoadStep
    \/ ReaderErrorStep

InitQuery ==
    /\ InitUtils
    /\ store = SlotAbsent
    /\ storeWritable = TRUE

SpecQuery == InitQuery /\ [][NextQuery]_vars

----------------------------------------------------------------------------
(* src/unnamed/part_002: the TaskManager component *)

\* One queued state update of the component: of tasks (a value, or one of
\* the four updaters), of isFormOpen, of taskToEdit, of sortBy, of sortOrder.
StateUpdate(op, value, task, id, flag, text) ==
    [op |-> op, value |-> value, task |-> task, id |-> id, flag |-> flag,
     text |-> text]

\* setTasks(value) is the update "setTasks", whose flag tells whether the
\* value is an array; the updaters of handleAddTask, handleUpdateTask,
\* handleDeleteTask and handleToggleComplete are "append", "replace",
\* "remove" and "flip"; the other setters go by their names.
SetTasks(value, isArray) == StateUpdate("setTasks", value, EmptyObj, 0, isArray, "")

SetState(setter, task, flag, text) == StateUpdate(setter, <<>>, task, 0, flag, text)

\* one queued update applied to the state
ApplyUpdate(s, u) ==
    CASE u.op = "setTasks" -> [s EXCEPT !.tasks = u.value, !.isArray = u.flag]
      [] u.op = "append" -> [s EXCEPT !.tasks = Append(@, u.task)]
      [] u.op = "replace" ->
            [s EXCEPT !.tasks = [i \in 1..Len(@) |->
                IF Has(@[i], "id") /\ @[i].id = u.task.id THEN u.task ELSE @[i]]]
      [] u.op = "remove" -> [s EXCEPT !.tasks = FilterOutId(@, u.id)]
      [] u.op = "flip" ->
            [s EXCEPT !.tasks = [i \in 1..Len(@) |->
                IF Has(@[i], "id") /\ @[i].id = u.id
                THEN Spread(@[i], [completed |-> ~Truthy(@[i], "completed")])
                ELSE @[i]]]
      [] u.op = "setIsFormOpen" -> [s EXCEPT !.isFormOpen = u.flag]
      [] u.op = "setTaskToEdit" -> [s EXCEPT !.taskToEdit = u.task]
      [] u.op = "setSortBy" -> [s EXCEPT !.sortBy = u.text]
      [] u.op = "setSortOrder" -> [s EXCEPT !.sortOrder = u.text]

\* the queued updates applied in order
RECURSIVE ApplyUpdates(_, _)
ApplyUpdates(s, q) ==
    IF q = <<>> THEN s ELSE ApplyUpdates(ApplyUpdate(s, Head(q)), Tail(q))

\* localStorage.setItem("tasks", JSON.stringify(tasks)) in the save effect:
\* nothing catches what setItem throws
SaveEffectFaults == ~storeWritable

\* The two effects of the first render, run in order by one flush: the load
\* effect reads the slot and queues what it parsed; the save effect then
\* writes the empty array the first render had.  An effect that throws
\* takes the component down.
ComponentMountEffects ==
    /\ phase = "mounting"
    /\ IF store.kind = "throws"                    \* getItem throws
       THEN /\ phase' = "crashed"
            /\ UNCHANGED <<queue, store>>
       ELSE /\ queue' =
                  IF store.kind \in {"absent", "empty"} THEN queue
                  ELSE IF store.kind = "garbage"     \* JSON.parse throws, caught
                  THEN Append(queue, SetTasks(<<>>, TRUE))
                  ELSE IF store.kind # "array"
                  THEN Append(queue, SetTasks(<<>>, FALSE))
                  ELSE Append(queue, SetTasks(JSONParse(store), TRUE))
            /\ IF SaveEffectFaults
               THEN /\ phase' = "crashed"
                    /\ store' = store
               ELSE /\ phase' = "mounted"
                    /\ store' = JSONStringify(tasks)
    /\ UNCHANGED <<tasks, loading, error, pendLoading, pendError, effectPending,
                   storeWritable, nextUuid, clock, result, saves, calls, callerIds,
                   sorting, componentVars, records, returned>>

\* A render of the component: the queued updates are applied and committed;
\* the save effect is scheduled when tasks got a new value.  A value of
\* tasks that is no array makes the render throw ([...tasks], tasks.length).
ComponentRender ==
    /\ phase = "mounted"
    /\ ~effectPending
    /\ queue # <<>>
    /\ LET s == ApplyUpdates([tasks |-> tasks, isArray |-> TRUE,
                               isFormOpen |-> isFormOpen,
                               taskToEdit |-> taskToEdit,
                               sortBy |-> sorting.sortBy,
                               sortOrder |-> sorting.sortOrder], queue)
       IN
       IF ~s.isArray
       THEN /\ phase' = "crashed"
            /\ UNCHANGED <<tasks, isFormOpen, taskToEdit, sorting, effectPending>>
       ELSE /\ tasks' = s.tasks
            /\ isFormOpen' = s.isFormOpen
            /\ taskToEdit' = s.taskToEdit
            /\ sorting' = [sorting EXCEPT !.sortBy = s.sortBy,
                                          !.sortOrder = s.sortOrder]
            /\ effectPending' =
                  \E i \in 1..Len(queue) :
                      queue[i].op \in {"setTasks", "append", "replace", "remove",
                                       "flip"}
            /\ phase' = phase
    /\ queue' = <<>>
    /\ UNCHANGED <<loading, error, pendLoading, pendError, store, storeWritable,
                   nextUuid, clock, result, saves, calls, callerIds, records,
                   returned>>

\* The save effect after a commit that changed tasks
ComponentSaveEffect ==
    /\ phase = "mounted"
    /\ effectPending
    /\ effectPending' = FALSE
    /\ IF SaveEffectFaults
       THEN /\ phase' = "crashed"
            /\ store' = store
       ELSE /\ phase' = phase
            /\ store' = JSONStringify(tasks)
    /\ UNCHANGED <<tasks, loading, error, queue, pendLoading, pendError,
                   storeWritable, nextUuid, clock, result, saves, calls, callerIds,
                   sorting, componentVars, records, returned>>

\* a handler, run on the mounted component between two renders, that
\* queues these updates
Handles(updates) ==
    /\ phase = "mounted"
    /\ ~effectPending
    /\ calls < MaxCalls
    /\ Len(queue) < MaxPending
    /\ calls' = calls + 1
    /\ queue' = queue \o updates
    /\ UNCHANGED <<tasks, loading, error, pendLoading, pendError, effectPending,
                   phase, store, storeWritable, clock, result, saves, callerIds,
                   sorting, componentVars, records, returned>>

\* the record the form submits for a new task
SubmittedTask(id) ==
    [id |-> id, title |-> TitleMilk, description |-> <<>>, priority |-> "Medium",
     completed |-> FALSE, createdAt |-> clock]

\* onClick of the Add Task button
AddTaskClick ==
    /\ Handles(<<SetState("setIsFormOpen", EmptyObj, TRUE, "")>>)
    /\ UNCHANGED nextUuid

\* handleAddTask(task): the form is open for a new task
handleAddTask ==
    /\ isFormOpen
    /\ IsNullish(taskToEdit)
    /\ nextUuid <= MaxIds
    /\ nextUuid' = nextUuid + 1
    /\ Handles(<<SetState("append", SubmittedTask(nextUuid), TRUE, ""),
                 SetState("setIsFormOpen", EmptyObj, FALSE, "")>>)

\* handleEditTask(task), from the item of a task shown
handleEditTask ==
    /\ \E i \in 1..Len(tasks) : Handles(<<SetState("setTaskToEdit", tasks[i], TRUE, "")>>)
    /\ UNCHANGED nextUuid

\* handleUpdateTask(updatedTask): the form is open on the task to edit
handleUpdateTask ==
    /\ ~IsNullish(taskToEdit)
    /\ Handles(<<SetState("replace", [taskToEdit EXCEPT !.title = <<"c">>],
                          TRUE, ""),
                 SetState("setTaskToEdit", NullObj, TRUE, "")>>)
    /\ UNCHANGED nextUuid

\* handleDeleteTask(id), from the item of a task shown
handleDeleteTask ==
    /\ \E i \in 1..Len(tasks) : Handles(<<StateUpdate("remove", <<>>, EmptyObj, tasks[i].id, TRUE, "")>>)
    /\ UNCHANGED nextUuid

\* handleToggleComplete(id), from the item of a task shown
handleToggleComplete ==
    /\ \E i \in 1..Len(tasks) : Handles(<<StateUpdate("flip", <<>>, EmptyObj, tasks[i].id, TRUE, "")>>)
    /\ UNCHANGED nextUuid

\* onOpenChange(open) of the form that is shown
FormOpenChange ==
    /\ isFormOpen \/ ~IsNullish(taskToEdit)
    /\ \E open \in BOOLEAN :
          Handles(IF open
                  THEN <<SetState("setIsFormOpen", EmptyObj, open, "")>>
                  ELSE <<SetState("setIsFormOpen", EmptyObj, open, ""),
                         SetState("setTaskToEdit", NullObj, TRUE, "")>>)
    /\ UNCHANGED nextUuid

\* onValueChange of the two selects
SortByChange ==
    /\ \E choice \in SortChoices : Handles(<<SetState("setSortBy", EmptyObj, TRUE, choice[1])>>)
    /\ UNCHANGED nextUuid

SortOrderChange ==
    /\ \E choice \in SortChoices : Handles(<<SetState("setSortOrder", EmptyObj, TRUE, choice[2])>>)
    /\ UNCHANGED nextUuid

NextComponent ==
    \/ ComponentMountEffects
    \/ ComponentRender
    \/ ComponentSaveEffect
    \/ AddTaskClick
    \/ handleAddTask
    \/ handleEditTask
    \/ handleUpdateTask
    \/ handleDeleteTask
    \/ handleToggleComplete
    \/ FormOpenChange
    \/ SortByChange
    \/ SortOrderChange

\* the component is not mounted yet
SpecComponent == InitClean /\ [][NextComponent]_vars

----------------------------------------------------------------------------
(* Notions the properties are stated with *)

Range(seq) == {seq[i] : i \in 1..Len(seq)}

Blank(str) == \A i \in 1..Len(str) : str[i] = " "

\* the fields of a draft: none for addTask(null)
DraftFields(taskData) ==
    IF "isNull" \in DOMAIN taskData.props THEN EmptyObj ELSE taskData.props

TitleMissing(d) == "title" \notin DOMAIN d \/ Blank(d.title)

\* a draft with a non-empty title and a priority among the three, within the
\* length limits
ValidDraft(taskData) ==
    LET d == DraftFields(taskData) IN
    /\ ~TitleMissing(d)
    /\ Len(d.title) <= MaxTitleLength
    /\ "description" \in DOMAIN d => Len(d.description) <= MaxDescriptionLength
    /\ "priority" \in DOMAIN d
    /\ d.priority \in Priorities

\* the position of the first record with this id, 0 when there is none
IndexOfId(ts, taskId) ==
    IF \E i \in 1..Len(ts) : "id" \in DOMAIN ts[i] /\ ts[i].id = taskId
    THEN CHOOSE i \in 1..Len(ts) :
             /\ "id" \in DOMAIN ts[i] /\ ts[i].id = taskId
             /\ \A j \in 1..(i - 1) : ~("id" \in DOMAIN ts[j] /\ ts[j].id = taskId)
    ELSE 0

\* the collection after the first i queued updates of the coming render
PrefixState(i) == ProcessQueue(tasks, SubSeq(queue, 1, i)).state

\* nothing is queued and no effect is scheduled
Quiescent == phase = "mounted" /\ NothingPending /\ ~effectPending

\* this step is a render that commits
Commits == phase = "mounted" /\ phase' = "mounted" /\ Render

\* this step is a call of the operation op
Calls(op) == calls' = calls + 1 /\ result'.op = op

----------------------------------------------------------------------------
(* C1 *)

----------------------------------------------------------------------------
(* C2 *)

\* C2: addTask called with a draft that is not valid returns a failure with
\* the validation errors, among them the title-required error when the
\* title is missing, empty or blank; the collection, the queued updates and
\* the slot are unchanged, and nothing is scheduled, so no save follows.
C2_InvalidAddChangesNothing ==
    [][ Calls("addTask") => \A taskData \in Drafts, now \in Times :
            (~ValidDraft(taskData) /\ addTask(taskData, now)) =>
                /\ ~result'.success /\ ~result'.hasTask
                /\ result'.error # <<>>
                /\ TitleMissing(DraftFields(taskData)) =>
                       MsgTitleRequired \in Range(result'.error)
                /\ UNCHANGED <<tasks, queue, pendLoading, pendError, effectPending,
                               store, loading, phase>>
                /\ saves' = 0
      ]_vars

\* an add with a blank title was refused on a loaded, non-empty collection
C2_Witness ==
    /\ Quiescent
    /\ result.op = "addTask" /\ ~result.success
    /\ result.error = <<MsgTitleRequired>>
    /\ Len(tasks) >= 1
    /\ saves = 0

----------------------------------------------------------------------------
(* C3, C4 *)

\* the record a patch yields: the fields of the patch override
Merged(old, patch) ==
    [k \in DOMAIN old \cup DOMAIN patch |->
        IF k \in DOMAIN patch THEN patch[k] ELSE old[k]]

\* C3: updateTask(id, patch) where no record of the collection has that id
\* returns a failure with the not-found error, and leaves the collection
\* unchanged.
C3_UpdateMissingFails ==
    [][ Calls("updateTask") =>
        \A taskId \in CallIds, updates \in Patches, eager \in BOOLEAN :
            ( /\ NothingPending
              /\ IndexOfId(tasks, taskId) = 0
              /\ updateTask(taskId, updates, eager) ) =>
                /\ ~result'.success
                /\ MsgNotFound \in Range(result'.error)
                /\ tasks' = tasks
      ]_vars

\* C4: updateTask(id, patch) on an existing record whose merge with the
\* patch fails validation returns a failure, leaves the collection
\* untouched and triggers no save.
C4_InvalidUpdateFails ==
    [][ Calls("updateTask") =>
        \A taskId \in CallIds, updates \in Patches, eager \in BOOLEAN :
            ( /\ NothingPending
              /\ IndexOfId(tasks, taskId) # 0
              /\ ~validateTask(Merged(tasks[IndexOfId(tasks, taskId)],
                                      updates.props)).isValid
              /\ updateTask(taskId, updates, eager) ) =>
                /\ ~result'.success
                /\ tasks' = tasks
                /\ UNCHANGED <<store, effectPending>>
      ]_vars

----------------------------------------------------------------------------
(* C5 *)

\* C5: an update of an existing record whose merge with the patch is valid
\* replaces the record in place: at its position every field of the patch
\* has the patch value and every other field its previous value; the length
\* of the collection and every other record are unchanged; the commit
\* schedules the auto-save effect, which calls saveTasks with the new
\* collection.
C5_UpdateReplacesInPlace ==
    [][ /\ Commits =>
              /\ tasks' = PrefixState(Len(queue))
              /\ queue # <<>> => effectPending'
              /\ \A i \in 1..Len(queue) :
                   LET e == queue[i]
                       before == PrefixState(i - 1)
                       after == PrefixState(i)
                       at == IndexOfId(before, e.id)
                   IN  ( /\ e.op = "update" /\ e.updates.kind = "object"
                         /\ at # 0
                         /\ validateTask(Merged(before[at], e.updates.props)).isValid ) =>
                           /\ Len(after) = Len(before)
                           /\ \A j \in 1..Len(before) : j # at => after[j] = before[j]
                           /\ DOMAIN after[at] =
                                  DOMAIN before[at] \cup DOMAIN e.updates.props
                           /\ \A k \in DOMAIN e.updates.props :
                                  after[at][k] = e.updates.props[k]
                           /\ \A k \in DOMAIN before[at] \ DOMAIN e.updates.props :
                                  after[at][k] = before[at][k]
        /\ AutoSaveEffect =>
              /\ saves' = saves + 1
              /\ storeWritable => store' = JSONStringify(tasks)
              /\ ~storeWritable => store' = store
      ]_vars

\* the first of two stored records was given a new title and priority and
\* the collection was saved
C5_Witness ==
    /\ Quiescent
    /\ result.op = "updateTask"
    /\ saves = 1
    /\ Len(tasks) = 2
    /\ tasks[1] = [StoredTask1 EXCEPT !.title = <<"c">>, !.priority = "Low"]
    /\ tasks[2] = StoredTask2
    /\ store = JSONStringify(tasks)

----------------------------------------------------------------------------
(* C6 *)

OnlyUpdatesQueued == \A i \in 1..Len(queue) : queue[i].op = "update"

\* a field of a record, or nothing when the record lacks it
Field(t, k) == IF k \in DOMAIN t THEN <<t[k]>> ELSE <<>>

IdAndCreatedAtKept ==
    /\ Len(tasks') = Len(tasks)
    /\ \A i \in 1..Len(tasks) :
           /\ Field(tasks'[i], "id") = Field(tasks[i], "id")
           /\ Field(tasks'[i], "createdAt") = Field(tasks[i], "createdAt")

\* C6, as claimed: updateTask and toggleTask, whatever the patch, leave the
\* id and the createdAt of every record as they were.
C6_IdAndCreatedAtKeptAlways ==
    [][ (Commits /\ OnlyUpdatesQueued) => IdAndCreatedAtKept ]_vars

\* C6, amended: updateTask with a patch that has neither an id nor a
\* createdAt field, and toggleTask, leave the id and the createdAt of every
\* record as they were.
C6_IdAndCreatedAtKeptByOtherPatches ==
    [][ ( /\ Commits
          /\ OnlyUpdatesQueued
          /\ \A i \in 1..Len(queue) :
                 DOMAIN queue[i].updates.props \cap {"id", "createdAt"} = {} ) =>
            IdAndCreatedAtKept
      ]_vars

\* a record added in this session, after a stored one, was given a new title
C6_Witness ==
    /\ Quiescent
    /\ result.op = "updateTask"
    /\ Len(tasks) = 2
    /\ tasks[1] = StoredTask1
    /\ tasks[2].id = 1
    /\ tasks[2].title = <<"b">>
    /\ tasks[2].createdAt = clock

----------------------------------------------------------------------------
(* C7 *)

IdsUnique(ts) ==
    \A i, j \in 1..Len(ts) :
        (i # j /\ "id" \in DOMAIN ts[i] /\ "id" \in DOMAIN ts[j]) =>
            ts[i].id # ts[j].id

\* C7, as claimed: no two records of the collection have the same id.
C7_IdsUniqueAlways == IdsUnique(tasks)

\* C7, amended: as long as no draft and no patch carried an id field of its
\* own, and the slot held records with distinct ids, no two records of the
\* collection have the same id.
C7_IdsUniqueWithoutCallerIds == ~callerIds => IdsUnique(tasks)

\* two records were added by drafts without an id
C7_Witness ==
    /\ Quiescent
    /\ ~callerIds
    /\ result.op = "addTask" /\ result.success
    /\ nextUuid = 3
    /\ Len(tasks) >= 3
    /\ tasks[Len(tasks)].id = 2
    /\ tasks[Len(tasks) - 1].id = 1

----------------------------------------------------------------------------
(* C8 *)

\* the length of a string without its leading and trailing spaces
TrimmedLength(str) ==
    LET inked == {i \in 1..Len(str) : str[i] # " "} IN
    IF inked = {} THEN 0
    ELSE (CHOOSE i \in inked : \A j \in inked : j <= i)
         - (CHOOSE i \in inked : \A j \in inked : i <= j) + 1

ValidRecord(t) ==
    /\ "priority" \in DOMAIN t /\ t.priority \in Priorities
    /\ "title" \in DOMAIN t
    /\ TrimmedLength(t.title) > 0
    /\ TrimmedLength(t.title) <= MaxTitleLength
    /\ "completed" \in DOMAIN t /\ t.completed \in BOOLEAN

AllValid(ts) == \A i \in 1..Len(ts) : ValidRecord(ts[i])

\* C8, as claimed: every record of the collection is valid, in every state,
\* the one right after initialization included, whatever the slot held.
C8_RecordsValidAlways == AllValid(tasks)

\* C8, amended: the collection starts empty, and no step makes a collection
\* of valid records hold an invalid one, unless it commits an array loaded
\* from the slot that holds an invalid record.
C8_ValidityKeptUnlessLoaded ==
    [][ ( /\ AllValid(tasks)
          /\ \A i \in 1..Len(queue) :
                 queue[i].op = "set" => AllValid(queue[i].value) ) =>
            AllValid(tasks')
      ]_vars

\* two valid records were loaded and one of them was updated
C8_Witness ==
    /\ Quiescent
    /\ result.op = "updateTask"
    /\ Len(tasks) = 2
    /\ tasks[1].title = <<"b">>
    /\ tasks[2] = StoredTask2
    /\ AllValid(tasks)

----------------------------------------------------------------------------
(* C9 *)

\* C9: toggleTask on the id of an existing record negates its completed
\* field, leaves its other fields and the other records unchanged, and the
\* commit schedules the save.
C9_ToggleNegatesCompleted ==
    [][ ( /\ Commits
          /\ Len(queue) = 1
          /\ queue[1].op = "update"
          /\ queue[1].updates.kind = "function"
          /\ IndexOfId(tasks, queue[1].id) # 0 ) =>
            LET at == IndexOfId(tasks, queue[1].id) IN
            /\ tasks' = [tasks EXCEPT ![at].completed = ~tasks[at].completed]
            /\ effectPending'
      ]_vars

----------------------------------------------------------------------------
(* C10 *)

\* C10: deleteTask(id) where no record has that id returns a failure with
\* the not-found error, and leaves the collection unchanged.
C10_DeleteMissingFails ==
    [][ Calls("deleteTask") => \A taskId \in CallIds :
            ( /\ NothingPending
              /\ IndexOfId(tasks, taskId) = 0
              /\ deleteTask(taskId) ) =>
                /\ ~result'.success
                /\ MsgNotFound \in Range(result'.error)
                /\ tasks' = tasks
      ]_vars

----------------------------------------------------------------------------
(* C11 *)

\* the records of ts whose id is not taskId, in their order
Without(ts, taskId) ==
    SelectSeq(ts, LAMBDA t : ~("id" \in DOMAIN t /\ t.id = taskId))

\* C11: deleteTask(id) returns success; the render that applies it to a
\* collection holding a record with that id removes the records with that
\* id and keeps every other record, unchanged and in the same order; the
\* commit schedules the auto-save effect, which calls saveTasks with the
\* reduced collection, the empty array when the last record was deleted.
C11_DeleteRemovesRecord ==
    [][ /\ Calls("deleteTask") => result'.success
        /\ Commits =>
              /\ tasks' = PrefixState(Len(queue))
              /\ queue # <<>> => effectPending'
              /\ \A i \in 1..Len(queue) :
                   LET e == queue[i]
                       before == PrefixState(i - 1)
                       after == PrefixState(i)
                   IN  (e.op = "delete" /\ IndexOfId(before, e.id) # 0) =>
                           /\ IndexOfId(after, e.id) = 0
                           /\ after = Without(before, e.id)
                           /\ Len(after) < Len(before)
        /\ (AutoSaveEffect /\ result.op = "deleteTask") =>
              /\ saves' = saves + 1
              /\ storeWritable => store' = JSONStringify(tasks)
      ]_vars

\* the first of two stored records was deleted and the other one saved
C11_Witness ==
    /\ Quiescent
    /\ result.op = "deleteTask"
    /\ tasks = <<StoredTask2>>
    /\ saves = 1
    /\ store = JSONStringify(<<StoredTask2>>)

----------------------------------------------------------------------------
(* C12 *)

\* C12: clearAllTasks returns success and queues the empty collection; the
\* render that applies it leaves the collection empty, whatever it held,
\* and schedules the auto-save effect, which calls saveTasks with the empty
\* collection: a slot that accepts the write then holds the text of the
\* empty array.
C12_ClearEmptiesAndSaves ==
    [][ /\ Calls("clearAllTasks") =>
              /\ result'.success
              /\ queue' = Append(queue, SetEntry(<<>>))
              /\ tasks' = tasks
        /\ (Commits /\ queue # <<>> /\ result.op = "clearAllTasks") =>
              /\ tasks' = <<>>
              /\ effectPending'
        /\ (AutoSaveEffect /\ result.op = "clearAllTasks") =>
              /\ tasks = <<>>
              /\ saves' = saves + 1
              /\ storeWritable => store' = JSONStringify(<<>>)
      ]_vars

\* a collection that held an added record was cleared and saved
C12_Witness ==
    /\ Quiescent
    /\ result.op = "clearAllTasks"
    /\ nextUuid = 2
    /\ tasks = <<>>
    /\ saves = 1
    /\ store = JSONStringify(<<>>)

----------------------------------------------------------------------------
(* C13 *)

\* C13: when the slot rejects writes, the render still commits the queued
\* operations; the auto-save effect that follows leaves the collection as
\* committed, leaves the hook mounted and the result of the call as it
\* was, and the slot keeps its previous value throughout.
C13_RejectedWriteKeepsMutation ==
    [][ ~storeWritable =>
          /\ store' = store
          /\ ~storeWritable'
          /\ Commits =>
                /\ tasks' = PrefixState(Len(queue))
                /\ result' = result
          /\ AutoSaveEffect =>
                /\ tasks' = tasks
                /\ phase' = "mounted"
                /\ result' = result
                /\ queue' = queue
                /\ saves' = saves + 1
      ]_vars

\* a record was added and kept while the slot, which rejects writes, still
\* holds the one stored record
C13_Witness ==
    /\ Quiescent
    /\ ~storeWritable
    /\ result.op = "addTask" /\ result.success
    /\ tasks = <<StoredTask1, result.task>>
    /\ saves = 1
    /\ store = JSONStringify(<<StoredTask1>>)

----------------------------------------------------------------------------
(* C14 *)

\* C14: once the save that followed a successful operation has failed, the
\* slot rejecting the write, and the hook has rendered again, the error flag
\* of the hook is not null.
C14_FailedSaveSetsError ==
    (Quiescent /\ ~storeWritable /\ result.op # "none" /\ result.success
        /\ saves > 0) => error # NoError

----------------------------------------------------------------------------
(* C15 *)

\* the array whose text the slot holds, the empty array when the slot holds
\* no text of an array
ArrayIn(slot) ==
    IF \E ts \in AnyArrays : slot = JSONStringify(ts)
    THEN CHOOSE ts \in AnyArrays : slot = JSONStringify(ts)
    ELSE <<>>

----------------------------------------------------------------------------
(* C17 *)

\* what an operation does to the collection it acts on
EffectOf(e, before) ==
    CASE e.op = "set" -> e.value
      [] e.op = "add" -> before \o <<e.task>>
      [] e.op = "delete" -> Without(before, e.id)
      [] e.op = "update" ->
            LET at == IndexOfId(before, e.id) IN
            IF at = 0 THEN before
            ELSE [before EXCEPT ![at] = Merged(before[at], e.updates.props)]

\* the operations of q, each one acting on what the one before produced
RECURSIVE InCallOrder(_, _)
InCallOrder(state, q) ==
    IF q = <<>> THEN state ELSE InCallOrder(EffectOf(Head(q), state), Tail(q))

----------------------------------------------------------------------------
(* C16 *)

----------------------------------------------------------------------------
(* C18 *)

\* the records of ts that compare equal to r under the key
TiedWith(ts, r, sortBy) ==
    SelectSeq(ts, LAMBDA t : Comparison(t, r, sortBy) = 0)

WithPriority(ts, priority) ==
    SelectSeq(ts, LAMBDA t : t.priority = priority)

\* C18: for every array, key and order, sortTasks returns the records of
\* the array ordered by the comparator, and the records that compare equal
\* under the key are in the order they have in the array; sorted by
\* priority in descending order, the High records come first in their
\* order in the array, then the Medium ones, then the Low ones.
C18_SortIsStable ==
    returned.fn = "sortTasks" =>
        LET out == returned.value
            sortBy == returned.sortBy
            sortOrder == returned.sortOrder
        IN  /\ Len(out) = Len(records)
            /\ \A i, j \in 1..Len(out) :
                   i < j => Comparator(out[i], out[j], sortBy, sortOrder) <= 0
            /\ \A r \in MockTasks :
                   TiedWith(out, r, sortBy) = TiedWith(records, r, sortBy)
            /\ (sortBy = "priority" /\ sortOrder = "desc") =>
                   out = WithPriority(records, "High")
                            \o WithPriority(records, "Medium")
                            \o WithPriority(records, "Low")

\* High, Medium, Low, High was sorted by priority in descending order
C18_Witness ==
    /\ returned.fn = "sortTasks"
    /\ returned.sortBy = "priority" /\ returned.sortOrder = "desc"
    /\ records = <<MockTask1, MockTask2, MockTask3, MockTask4>>
    /\ returned.value = <<MockTask1, MockTask4, MockTask2, MockTask3>>

----------------------------------------------------------------------------
(* C19 *)

----------------------------------------------------------------------------
(* C20 *)

\* C20: validateTask called with null or undefined returns, without
\* throwing, errors among which is the title-required error.
C20_AbsentTaskGetsTitleError ==
    (returned.fn = "validateTask" /\ IsNullish(returned.value[1])) =>
        /\ ~returned.ok
        /\ MsgTitleRequired \in Range(returned.errors)

----------------------------------------------------------------------------
(* C21 *)

\* C21: validateTask reports a title as too long if and only if the length
\* of the title without its leading and trailing spaces exceeds the
\* maximum.
C21_TrimmedLengthCompared ==
    ( /\ returned.fn = "validateTask"
      /\ ~IsNullish(returned.value[1])
      /\ "title" \in DOMAIN returned.value[1] ) =>
        (MsgTitleTooLong \in Range(returned.errors)
            <=> TrimmedLength(returned.value[1].title) > MaxTitleLength)

----------------------------------------------------------------------------
(* C22 *)

\* C22: for every record, validateTask returns no error exactly when the
\* record is valid; a record whose title is missing, empty or blank gets
\* the title error; a record with a blank title, a description too long and
\* a priority that is none gets an error for each of the three.
C22_RulesIndependent ==
    (returned.fn = "validateTask" /\ ~IsNullish(returned.value[1])) =>
        LET t == returned.value[1]
            errors == Range(returned.errors)
        IN  /\ returned.ok <=> (errors = {})
            /\ (errors = {}) <=> ValidRecord(t)
            /\ TitleMissing(t) => MsgTitleRequired \in errors
            /\ ("description" \in DOMAIN t
                   /\ Len(t.description) > MaxDescriptionLength) =>
                   MsgDescriptionTooLong \in errors
            /\ ("priority" \notin DOMAIN t \/ t.priority \notin Priorities) =>
                   MsgPriority \in errors

----------------------------------------------------------------------------
(* C23 *)

\* the number of records of ts that satisfy Test
Count(ts, Test(_)) == Len(SelectSeq(ts, Test))

\* C23: getTaskStats returns the number of records as total, completed and
\* pending counts that add up to it, the number of High, Medium and Low
\* records, and the completion rate completed / total x 100, which is 0 for
\* the empty array.
C23_StatsCount ==
    returned.fn = "getTaskStats" =>
        LET stats == returned.value[1] IN
        /\ stats.total = Len(records)
        /\ stats.completed = Count(records, LAMBDA t : t.completed)
        /\ stats.completed + stats.pending = stats.total
        /\ stats.highPriority = Count(records, LAMBDA t : t.priority = "High")
        /\ stats.mediumPriority = Count(records, LAMBDA t : t.priority = "Medium")
        /\ stats.lowPriority = Count(records, LAMBDA t : t.priority = "Low")
        /\ stats.completionRate.den > 0
        /\ stats.total > 0 =>
               stats.completionRate.num * stats.total
                   = stats.completed * 100 * stats.completionRate.den
        /\ stats.total = 0 =>
               /\ stats.completed = 0 /\ stats.pending = 0
               /\ stats.completionRate.num = 0

\* the statistics of four records, two of them completed
C23_Witness ==
    /\ returned.fn = "getTaskStats"
    /\ records = <<MockTask1, MockTask2, MockTask3, MockTask4>>
    /\ returned.value[1].total = 4
    /\ returned.value[1].completed = 2
    /\ returned.value[1].highPriority = 2
    /\ returned.value[1].completionRate = [num |-> 200, den |-> 4]

----------------------------------------------------------------------------
(* C24 *)

\* two strings that differ in the case of their letters at most
SameButCase(s, t) ==
    /\ Len(s) = Len(t)
    /\ \A i \in 1..Len(s) : LowerOf(s[i]) = LowerOf(t[i])

\* the record has needle in its title or description, whatever the case
Contains(t, needle) ==
    \E k \in {"title", "description"} \cap DOMAIN t :
        \E from \in 1..(Len(t[k]) + 1), to \in 0..Len(t[k]) :
            SameButCase(SubSeq(t[k], from, to), needle)

\* what filterTasks returns when the records are selected by this needle
FilteredBy(needle) ==
    /\ (returned.input.isArray => returned.input.items = records)
    /\ (~returned.input.isArray \/ ~returned.searchTerm.given
           \/ returned.searchTerm.text = <<>>) =>
           returned.output = returned.input
    /\ (returned.input.isArray /\ returned.searchTerm.given
           /\ returned.searchTerm.text # <<>>) =>
           /\ returned.output.isArray
           /\ returned.output.items
                  = SelectSeq(records, LAMBDA t : Contains(t, needle))
           /\ (\A i \in 1..Len(records) : ~Contains(records[i], needle)) =>
                  returned.output.items = <<>>

----------------------------------------------------------------------------
(* C25 *)

\* C25: restoreTasks settles once and for all. Its promise is pending while
\* the file is being read; it is fulfilled, with the array parsed from the
\* text, exactly when the read has succeeded and the text is that of an
\* array; it is rejected exactly when the value is no file, the read has
\* failed, or the text read is no JSON or no array. resolve and reject are
\* called once in all, a reader callback runs only on a pending promise, and
\* neither the slot nor the collection changes.
C25_RestoreSettlesOnce ==
    [][returned'.fn = "restoreTasks" =>
        LET r == returned'
            read == r.reader = "done" /\ r.file.readable
        IN  /\ r.promise.settleCalls <= 1
            /\ (r.promise.state = "pending") <=> (r.reader = "loading")
            /\ (r.promise.state = "pending") <=> (r.promise.settleCalls = 0)
            /\ (r.promise.state = "fulfilled")
                   <=> (read /\ r.file.text.kind = "array")
            /\ r.promise.state = "fulfilled" =>
                   /\ r.promise.value = JSONParse(r.file.text)
                   /\ r.promise.value = records
            /\ (r.promise.state = "rejected")
                   <=> \/ ~r.file.blob
                       \/ r.reader = "done" /\ ~r.file.readable
                       \/ read /\ r.file.text.kind # "array"
            /\ (r.reader = "done" /\ returned' # returned) =>
                   /\ returned.fn = "restoreTasks"
                   /\ returned.file = r.file
                   /\ returned.promise.state = "pending"
            /\ store' = store
            /\ tasks' = tasks
            /\ records' = records]_vars

\* a backup of two records has been read and the promise is fulfilled
C25_Witness ==
    /\ returned.fn = "restoreTasks"
    /\ returned.promise.state = "fulfilled"
    /\ Len(records) = 2
    /\ returned.promise.value = records

----------------------------------------------------------------------------
(* C26 *)

\* C26: addTask called with a draft that has a valid title and nothing else
\* returns success with a created record whose description is the empty
\* string, whose priority is Medium, whose completed is false and whose
\* createdAt is the time of the call.
C26_AddAppliesDefaults ==
    [][ Calls("addTask") => \A now \in Times :
            addTask(Obj([title |-> <<"a">>]), now) =>
                /\ result'.success /\ result'.hasTask
                /\ LET t == result'.task IN
                   /\ {"description", "priority", "completed", "createdAt"}
                          \subseteq DOMAIN t
                   /\ t.description = <<>>
                   /\ t.priority = "Medium"
                   /\ t.completed = FALSE
                   /\ t.createdAt = now
      ]_vars

----------------------------------------------------------------------------
(* C28 *)

\* C28: whenever the last operation called returned a failure and the hook
\* has rendered what was queued, the error flag of the hook is not null.
C28_ErrorFlagAfterFailure ==
    (Quiescent /\ result.op \in {"addTask", "updateTask", "deleteTask"}
        /\ ~result.success) => error # NoError

----------------------------------------------------------------------------
(* C29 *)

\* C29: while loading is true no step writes the slot or invokes saveTasks;
\* before the first operation is called no step changes a slot that holds
\* the text of an array; and loading, once false, stays false.
C29_NoSaveWhileLoading ==
    [][ /\ loading => (store' = store /\ saves' <= saves)
        /\ (calls' = 0 /\ store.kind = "array") => store' = store
        /\ ~loading => ~loading'
      ]_vars

\* the stored array was loaded and saved back, and no operation was called
C29_Witness ==
    /\ ~loading
    /\ calls = 0
    /\ saves = 1
    /\ tasks = <<StoredTask1, StoredTask2>>
    /\ store = JSONStringify(tasks)

----------------------------------------------------------------------------
(* C30 *)

\* C30: once the hook has loaded, has rendered what was queued and has run
\* the auto-save effect, a slot that accepts writes holds the text of the
\* collection in insertion order, whatever sort key and order the hook
\* holds; a call of updateSort changes neither the collection nor the slot
\* and schedules no save; an operation that returns a failure changes
\* neither the slot nor what is queued.
C30_SlotMirrorsCollection ==
    [][ /\ (Quiescent' /\ storeWritable /\ ~loading') =>
              store' = JSONStringify(tasks')
        /\ UpdateSortStep =>
              UNCHANGED <<tasks, queue, store, effectPending, saves>>
        /\ (Commits /\ queue = <<>> /\ ~pendLoading) =>
              (tasks' = tasks /\ ~effectPending')
        /\ (calls' = calls + 1 /\ ~result'.success) =>
              UNCHANGED <<tasks, queue, store, effectPending>>
      ]_vars

\* the slot holds the collection as it was inserted, and the held sort key
\* puts it in another order
C30_Witness ==
    /\ Quiescent
    /\ storeWritable
    /\ result.op = "addTask" /\ result.success
    /\ Len(tasks) = 3
    /\ sorting.sortBy = "title"
    /\ getSortedTasks # tasks
    /\ store = JSONStringify(tasks)
    /\ store # JSONStringify(getSortedTasks)

----------------------------------------------------------------------------
(* C27 *)

\* C27: in the TaskManager component, on a slot that can be read and whose
\* write throws, no step takes the component down: it mounts, and the
\* render that follows handleAddTask commits the created task, so that the
\* list holds it.
C27_WriteFailureTolerated ==
    [][ (~storeWritable /\ store.kind # "throws") =>
            /\ (ComponentMountEffects \/ ComponentSaveEffect) =>
                   (phase' = "mounted" /\ store' = store)
            /\ ComponentRender =>
                   \A i \in 1..Len(queue) :
                       queue[i].op = "append" =>
                           /\ phase' = "mounted"
                           /\ queue[i].task \in Range(tasks')
      ]_vars

============================================================================
